---- MODULE Spec2Model ----
(***************************************************************************)
(* slwhttp: a static file server confined to one directory.                *)
(*                                                                         *)
(* A std::string is a sequence of one-character strings, so that length,   *)
(* substr, find and replace act on the characters as they do in the code.  *)
(***************************************************************************)
EXTENDS Integers, Sequences, FiniteSets, TLC

VARIABLES
  jail,       \* SandboxPath::jail, the static jail root ("" until set)
  fs,         \* the filesystem: canonical path -> node
  fsChanges,  \* number of filesystem changes made so far by other processes
  path,       \* the SandboxPath object last constructed
  gets,       \* outcome of every get() call on that object, oldest first
  htdocs,     \* _htdocs, the directory given on the command line
  pc,         \* where the program is: main, the accept loop, the handler
  stream,     \* every byte the client of the connection is going to send
  sent,       \* how many of them have reached the socket
  rd,         \* how many of them read_request has read
  peerClosed, \* the client has closed its end
  fdValid,    \* valid(fd) of the connection handle
  elapsed,    \* whole seconds since read_request took start_time
  request,    \* read_request's accumulated text
  lines,      \* the vector read_request returned
  idx,        \* position of process_request's loop in that vector
  cand,       \* _rpath: the candidate path given to SandboxPath
  file,       \* dump_file's descriptor of the opened file
  fsize,      \* dump_file's measured size
  written,    \* every byte written to the connection
  hist,       \* what has happened on the connection (for the properties)
  sockfd,     \* _sockfd, the listening socket
  lsn,        \* begin: where it is (idle, loop, exit)
  fdt,        \* the descriptor table: number -> connection behind it, 0 if none
  conns,      \* the clients' side of every connection
  thr,        \* the process_request thread started for each connection
  lhist,      \* what has happened in the process (for the properties)
  load,       \* what the clients of this run do, in their order of arrival
  setJails,   \* the argument of every SandboxPath::setJail call so far
  io          \* the locals of the running safe_write or safe_sendfile call

sboxVars == <<jail, fs, fsChanges, path, gets>>
connVars == <<stream, sent, rd, peerClosed, fdValid, elapsed, request>>
reqVars  == <<lines, idx, cand, file, fsize, written>>
auxVars  == <<setJails, io>>
procVars == <<sockfd, lsn, fdt, conns, thr, lhist, load>>
lsnVars  == <<procVars, auxVars>>
srvVars  == <<htdocs, pc, connVars, reqVars, hist, lsnVars>>
oneVars  == <<fsChanges, path, gets, connVars, reqVars, hist, auxVars>>
vars     == <<sboxVars, srvVars>>

----------------------------------------------------------------------------
(* Bounds of the model *)

MaxFsChanges == 2
MaxGets == 2
MaxLinkDepth == 2
MaxSetJails == 2   \* calls of setJail an arbitrary caller makes
MaxConns == 2      \* connections that reach the listening socket

----------------------------------------------------------------------------
(* std::string helpers *)

Str0 == <<>>

substr(s, pos, n) ==
  \* s.substr(pos, n) with a 0-based pos: at most n characters from pos
  SubSeq(s, pos + 1, IF pos + n > Len(s) THEN Len(s) ELSE pos + n)

RECURSIVE explode(_, _)
explode(s, d) ==
  \* the pieces of s between occurrences of the delimiter character d
  IF \A i \in 1..Len(s) : s[i] # d
  THEN <<s>>
  ELSE LET i == CHOOSE k \in 1..Len(s) :
                  s[k] = d /\ \A j \in 1..(k - 1) : s[j] # d
       IN  <<SubSeq(s, 1, i - 1)>> \o explode(SubSeq(s, i + 1, Len(s)), d)

Ascii ==
  \* the printable characters, code 32 first
  <<" ", "!", "\"", "#", "$", "%", "&", "'", "(", ")", "*", "+", ",", "-",
  ".", "/", "0", "1", "2", "3", "4", "5", "6", "7", "8", "9", ":", ";", "<",
  "=", ">", "?", "@", "A", "B", "C", "D", "E", "F", "G", "H", "I", "J", "K",
  "L", "M", "N", "O", "P", "Q", "R", "S", "T", "U", "V", "W", "X", "Y", "Z",
  "[", "\\", "]", "^", "_", "GRAVE", "a", "b", "c", "d", "e", "f", "g", "h",
  "i", "j", "k", "l", "m", "n", "o", "p", "q", "r", "s", "t", "u", "v", "w",
  "x", "y", "z", "{", "|", "}", "~">>

NUL == "NUL"   \* the character of code 0
CTL == "CTL"   \* any other character outside the printable range

Chr(n) ==
  \* static_cast<char>(n)
  LET b == n % 256
  IN  IF b = 0 THEN NUL
      ELSE IF b >= 32 /\ b <= 126 THEN Ascii[b - 31]
      ELSE CTL

Ord(c) == CHOOSE n \in 1..Len(Ascii) : Ascii[n] = c

IsUpper(c) == \E n \in 34..59 : Ascii[n] = c

tolower(c) == IF IsUpper(c) THEN Ascii[Ord(c) + 32] ELSE c

strtolower(s) == [i \in 1..Len(s) |-> tolower(s[i])]

Whitespace == {" ", "\t", "\n", "\r"}

RECURSIVE trim(_)
trim(s) ==
  \* Utility::trim: s without leading and trailing whitespace
  IF s = Str0 THEN s
  ELSE IF s[1] \in Whitespace THEN trim(Tail(s))
  ELSE IF s[Len(s)] \in Whitespace THEN trim(SubSeq(s, 1, Len(s) - 1))
  ELSE s

find(s, pat, pos) ==
  \* s.find(pat, pos): the first 1-based index >= pos where pat occurs;
  \* 0 stands for std::string::npos
  LET hits == { i \in pos..(Len(s) - Len(pat) + 1) :
                  SubSeq(s, i, i + Len(pat) - 1) = pat }
  IN  IF hits = {} THEN 0
      ELSE CHOOSE i \in hits : \A j \in hits : i <= j

replace(s, pos, n, r) ==
  \* s.replace(pos, n, r) with a 1-based pos
  SubSeq(s, 1, pos - 1) \o r \o SubSeq(s, pos + n, Len(s))

Digits == <<"0", "1", "2", "3", "4", "5", "6", "7", "8", "9">>

RECURSIVE to_string(_)
to_string(n) ==
  IF n < 10 THEN <<Digits[n + 1]>>
  ELSE to_string(n \div 10) \o <<Digits[(n % 10) + 1]>>

HexDigits ==
  <<"0", "1", "2", "3", "4", "5", "6", "7", "8", "9",
    "a", "b", "c", "d", "e", "f">>

IsHex(c) == \E n \in 1..16 : HexDigits[n] = tolower(c)

HexVal(c) == (CHOOSE n \in 1..16 : HexDigits[n] = tolower(c)) - 1

----------------------------------------------------------------------------
(* The filesystem the server runs on *)

P_slash  == <<"/">>
P_www    == <<"/", "w">>                      \* the served directory
P_www2   == <<"/", "w", "2">>                 \* a sibling: name starts alike
P_x      == <<"/", "w", "2", "/", "x">>       \* a file in the sibling
P_secret == <<"/", "s">>                      \* a file outside the root
P_index  == <<"/", "w", "/", "i", "n", "d", "e", "x", ".", "h", "t", "m", "l">>
P_a      == <<"/", "w", "/", "a">>            \* a file in the root
P_d      == <<"/", "w", "/", "d">>            \* a directory in the root
P_b      == <<"/", "w", "/", "d", "/", "b">>  \* a file one level down
P_l      == <<"/", "w", "/", "l">>            \* a symlink leaving the root
P_k      == <<"/", "w", "/", "k">>            \* a symlink staying inside
P_u      == <<"/", "w", "/", "u">>            \* a file nobody may read

Absent       == [kind |-> "absent", readable |-> FALSE, target |-> Str0, data |-> Str0]
Dir          == [kind |-> "dir",    readable |-> TRUE,  target |-> Str0, data |-> Str0]
RegFile(d, r) == [kind |-> "file",  readable |-> r,     target |-> Str0, data |-> d]
SymLink(t)   == [kind |-> "link",   readable |-> TRUE,  target |-> t,    data |-> Str0]

InitFs ==
  (P_www    :> Dir) @@
  (P_www2   :> Dir) @@
  (P_x      :> RegFile(<<"X">>, TRUE)) @@
  (P_secret :> RegFile(<<"S">>, TRUE)) @@
  (P_index  :> RegFile(<<"h", "i">>, TRUE)) @@
  (P_a      :> RegFile(<<"A">>, TRUE)) @@
  (P_d      :> Dir) @@
  (P_b      :> RegFile(<<"B">>, TRUE)) @@
  (P_l      :> SymLink(P_secret)) @@
  (P_k      :> SymLink(P_a)) @@
  (P_u      :> RegFile(<<"U">>, FALSE))

\* what another process may turn /w/a and /s into while the server runs
Variants(p) ==
  IF p = P_a
  THEN {RegFile(<<"A">>, TRUE), RegFile(<<"A">>, FALSE), Absent, Dir,
        SymLink(P_secret)}
  ELSE {RegFile(<<"S">>, TRUE), Absent}

Lookup(f, p) == IF p \in DOMAIN f THEN f[p] ELSE Absent

NoPath == <<"?">>

Parent(p) ==
  \* p without its last component; the root directory is written Str0 here
  IF p = Str0 THEN Str0
  ELSE LET i == CHOOSE k \in 1..Len(p) :
                  p[k] = "/" /\ \A j \in (k + 1)..Len(p) : p[j] # "/"
       IN  SubSeq(p, 1, i - 1)

RECURSIVE Resolve(_, _, _, _)
Resolve(f, comps, cur, fuel) ==
  \* realpath(3): walk the components from directory cur, following symlinks
  IF comps = <<>> THEN cur
  ELSE LET c    == Head(comps)
           rest == Tail(comps)
       IN  IF c = Str0 \/ c = <<".">> THEN Resolve(f, rest, cur, fuel)
           ELSE IF c = <<".", ".">> THEN Resolve(f, rest, Parent(cur), fuel)
           ELSE LET child == cur \o P_slash \o c
                    node  == Lookup(f, child)
                IN  CASE node.kind = "absent" -> NoPath
                      [] node.kind = "dir"    -> Resolve(f, rest, child, fuel)
                      [] node.kind = "file"   ->
                           IF rest = <<>> THEN child ELSE NoPath
                      [] node.kind = "link"   ->
                           IF fuel = 0 THEN NoPath
                           ELSE LET t == Resolve(f, explode(node.target, "/"),
                                                 Str0, fuel - 1)
                                IN  IF t = NoPath THEN NoPath
                                    ELSE IF rest = <<>> THEN t
                                    ELSE IF t # Str0 /\ Lookup(f, t).kind # "dir"
                                         THEN NoPath
                                         ELSE Resolve(f, rest, t, fuel)

c_str(s) ==
  \* what a C function sees of s: the characters before the first NUL
  LET i == find(s, <<NUL>>, 1)
  IN  IF i = 0 THEN s ELSE SubSeq(s, 1, i - 1)

realPath(f, p) ==
  \* File::realPath: the canonical absolute path, or "" when there is none
  IF c_str(p) = Str0 THEN Str0
  ELSE LET r == Resolve(f, explode(c_str(p), "/"), Str0, MaxLinkDepth)
       IN  IF r = NoPath THEN Str0
           ELSE IF r = Str0 THEN P_slash
           ELSE r

Node(f, p) ==
  \* the node a path names after symlinks are followed (stat, not lstat)
  LET r == realPath(f, p)
  IN  IF r = Str0 THEN Absent
      ELSE IF r = P_slash THEN Dir
      ELSE Lookup(f, r)

isFile(f, p)   == Node(f, p).kind = "file"
readable(f, p) == Node(f, p).kind # "absent" /\ Node(f, p).readable

----------------------------------------------------------------------------
(* SandboxPath *)

NoSandboxPath == [state |-> "none", rpath |-> Str0, real |-> Str0]

checkJail_NoSeparator(p) ==
  Len(p) > Len(jail) + 1 /\ substr(p, 0, Len(jail)) = jail

checkJail(p) ==
  IF Len(p) > Len(jail) + 1
  THEN substr(p, 0, Len(jail) + 1) = jail \o P_slash
  ELSE FALSE

SandboxPath_NoJailTest(p) ==
  LET rp == realPath(fs, p)
  IN  IF checkJail(rp)
      THEN [state |-> "ok",     rpath |-> rp,   real |-> rp]
      ELSE [state |-> "denied", rpath |-> Str0, real |-> rp]

SandboxPath_NoThrow(p) ==
  [state |-> "ok", rpath |-> realPath(fs, p), real |-> realPath(fs, p)]

SandboxPath(p) ==
  \* the constructor: the object built from p, or the record of its failure
  IF Len(jail) = 0
  THEN [state |-> "denied", rpath |-> Str0, real |-> Str0]
  ELSE LET rp == realPath(fs, p)
       IN  IF checkJail(rp)
           THEN [state |-> "ok",     rpath |-> rp,   real |-> rp]
           ELSE [state |-> "denied", rpath |-> Str0, real |-> rp]

get_Cached(sp) ==
  IF Len(gets) > 0 THEN gets[1]
  ELSE isFile(fs, sp.rpath) /\ readable(fs, sp.rpath)

get(sp) ==
  \* TRUE when get() returns rpath, FALSE when it throws
  ~(~isFile(fs, sp.rpath) \/ ~readable(fs, sp.rpath))

setJail_Overwrite(p) == realPath(fs, p)

setJail(p) == IF Len(jail) = 0 THEN realPath(fs, p) ELSE jail

----------------------------------------------------------------------------
(* The pure parts of the request handler *)

INDEX ==
  <<"/", "i", "n", "d", "e", "x", ".", "h", "t", "m", "l">>

CR == "\r"
LF == "\n"

RECURSIVE CrlfToLf(_, _)
CrlfToLf(req, pos) ==
  \* read_request's loop rewriting each "\r\n" of one chunk to "\n",
  \* searching on from the character after each replacement
  LET loc == find(req, <<CR, LF>>, pos)
  IN  IF loc = 0 THEN req
      ELSE CrlfToLf(replace(req, loc, 2, <<LF>>), loc + 1)

Terminated(req) == find(req, <<LF, LF>>, 1) # 0

\* What strtol reads through the pointer `hex`: the temporary string it
\* pointed into is destroyed before the call, so the build decides whether
\* the two digits are still there.
DanglingChars == {NUL, "."}

strtol_hex(h1, h2) == {Chr(16 * HexVal(h1) + HexVal(h2))} \cup DanglingChars

regex_search(url) ==
  \* position of the leftmost "%" followed by two hex digits, 0 for none
  LET hits == { i \in 1..(Len(url) - 2) :
                  url[i] = "%" /\ IsHex(url[i + 1]) /\ IsHex(url[i + 2]) }
  IN  IF hits = {} THEN 0
      ELSE CHOOSE i \in hits : \A j \in hits : i <= j

RECURSIVE urldecode(_)
urldecode(url) ==
  \* every string the loop may end with: it searches the whole string again
  \* after each substitution until no escape is left
  LET i == regex_search(url)
  IN  IF i = 0 THEN {url}
      ELSE UNION { urldecode(replace(url, i, 3, <<dec>>)) :
                     dec \in strtol_hex(url[i + 1], url[i + 2]) }

words_of(line) == explode(trim(line), " ")

IsGet_AnyMethod(line) == Len(words_of(line)) > 0

IsGet(line) ==
  Len(words_of(line)) > 0 /\ strtolower(words_of(line)[1]) = <<"g", "e", "t">>

RequestPath_NoRoot(line) ==
  IF Len(words_of(line)) = 1 THEN INDEX ELSE words_of(line)[2]

RequestPath(line) ==
  \* _rpath before decoding: the second word, or INDEX
  IF Len(words_of(line)) = 1 \/ trim(words_of(line)[2]) = <<"/">>
  THEN INDEX
  ELSE words_of(line)[2]

Candidate_NotDecoded(line) == {htdocs \o <<"/">> \o RequestPath(line)}

Candidate(line) ==
  \* the values line 411 may give _rpath
  { htdocs \o <<"/">> \o d : d \in urldecode(RequestPath(line)) }

StatusOk ==
  <<"H", "T", "T", "P", "/", "1", ".", "0", " ", "2", "0", "0", " ", "O",
    "K", "\r", "\n">>
StatusForbidden ==
  <<"H", "T", "T", "P", "/", "1", ".", "0", " ", "4", "0", "3", " ", "F",
    "o", "r", "b", "i", "d", "d", "e", "n", "\r", "\n">>
ContentLength ==
  <<"C", "o", "n", "t", "e", "n", "t", "-", "L", "e", "n", "g", "t", "h",
    ":", " ">>
DeniedMessage ==
  <<"A", "c", "c", "e", "s", "s", " ", "d", "e", "n", "i", "e", "d", " ",
    "t", "o", " ", "t", "h", "e", " ", "r", "e", "q", "u", "e", "s", "t", "e",
    "d", " ", "p", "a", "t", "h", ".", "\r", "\n">>

Response200_LengthOff(n) ==
  StatusOk \o ContentLength \o to_string(n + 1) \o <<CR, LF>> \o <<CR, LF>>

Response200(n) ==
  StatusOk \o ContentLength \o to_string(n) \o <<CR, LF>> \o <<CR, LF>>

Response403(message) ==
  StatusForbidden \o ContentLength \o to_string(Len(message)) \o <<CR, LF>>
    \o <<CR, LF>> \o message

----------------------------------------------------------------------------
(* The state of one connection *)

Deadline == 3     \* seconds read_request waits for the blank line
BUFSIZE  == 8192

NoFile == [open |-> FALSE, data |-> Str0, from |-> Str0]

NoHist ==
  [ startedValid |-> FALSE,  \* process_request found the handle valid
    invalidated  |-> FALSE,  \* the handle became invalid before the close
    late         |-> FALSE,  \* the deadline passed with no blank line sent
    readEnd      |-> "none", \* why read_request's loop ended
    getLines     |-> 0,      \* GET lines process_request has acted on
    responses    |-> <<>>,   \* status of every response begun
    opened       |-> <<>>,   \* the file behind every open() that succeeded
    fdLog        |-> <<>>,   \* shutdown and close calls on the handle
    short        |-> FALSE,  \* a write or transfer sent less than asked
    fresh        |-> FALSE,  \* valid(fd) was the last call made on the handle
    stale        |-> {},     \* calls made on the handle with no valid(fd)
                             \* since the call before
    fcloses      |-> 0,      \* close() calls on an open file descriptor
    lateOp       |-> FALSE ] \* the handle was used after its close

ConnIdle ==
  /\ stream = Str0
  /\ sent = 0
  /\ rd = 0
  /\ peerClosed = FALSE
  /\ fdValid = FALSE
  /\ elapsed = 0
  /\ request = Str0

ReqIdle ==
  /\ lines = <<>>
  /\ idx = 0
  /\ cand = Str0
  /\ file = NoFile
  /\ fsize = 0
  /\ written = Str0

(* The state of the process with its threads *)

ConnIds == 1..MaxConns

NoFd == -1    \* what accept returns when it fails

NoConn ==
  [ state  |-> "new",   \* new, queued, accepted or dropped
    req    |-> Str0,    \* the bytes the client sends
    reads  |-> TRUE,    \* the client takes what the server sends
    recv   |-> Str0,    \* the bytes the server has written to it
    closed |-> FALSE ]  \* the server has shut it down and closed it

NoThread ==
  [ pc    |-> "none",   \* none, start, scan, close, done
    fd    |-> NoFd,     \* process_request's argument
    lines |-> <<>>,     \* what read_request returned
    idx   |-> 0,        \* position of the loop over the lines
    cand  |-> Str0,     \* _rpath of the line handled last
    log   |-> <<>>,     \* status of every response written
    threw |-> 0 ]       \* exceptions raised while handling the lines

NoLhist ==
  [ foreign |-> FALSE,  \* a thread used a descriptor of another connection
    crashed |-> FALSE,  \* an exception left a thread: std::terminate
    spawned |-> [c \in ConnIds |-> 0] ] \* threads started per connection

\* no safe_write or safe_sendfile call is running
NoIo ==
  [ fn          |-> "none",  \* which of the two functions runs
    pc          |-> "idle",  \* idle, in its loop, or returned
    data        |-> Str0,    \* the string to write, or the bytes of in_fd
    data_length |-> 0,
    data_sent   |-> 0,
    return_val  |-> 0,
    out         |-> Str0,    \* what has reached the output descriptor
    log         |-> <<>>,    \* every write/sendfile call: position, count, result
    result      |-> FALSE ]  \* the value returned

LsnIdle ==
  /\ sockfd = "none"
  /\ lsn = [pc |-> "idle"]
  /\ fdt = [n \in ConnIds |-> 0]
  /\ conns = [c \in ConnIds |-> NoConn]
  /\ thr = [c \in ConnIds |-> NoThread]
  /\ lhist = NoLhist
  /\ load = <<>>
  /\ setJails = <<>>
  /\ io = NoIo

----------------------------------------------------------------------------
(* The SandboxPath interface driven by an arbitrary caller *)

JailArgs == {P_www, P_slash, P_d, <<"/", "n">>}

Candidates ==
  { Str0, P_www, P_www \o P_slash, P_a, P_index, P_d, P_b, P_l, P_k, P_x,
    P_secret,
    P_www \o <<"/", ".", ".">>,
    P_www \o <<"/", ".", ".", "/", "s">>,
    P_www \o <<"/", ".", ".", "/", "w", "2", "/", "x">>,
    P_www \o <<"/", "/", "s">>,
    P_www \o <<"/", "n">>,
    P_d \o <<"/", ".", ".", "/", "a">>,
    P_a \o <<"/", ".">> }

SboxInit ==
  /\ jail = Str0
  /\ fs = InitFs
  /\ fsChanges = 0
  /\ path = NoSandboxPath
  /\ gets = <<>>
  /\ htdocs = Str0
  /\ pc = "caller"
  /\ ConnIdle
  /\ ReqIdle
  /\ LsnIdle
  /\ hist = NoHist

SetJail ==
  /\ Len(setJails) < MaxSetJails
  /\ \E p \in JailArgs :
       /\ jail' = setJail(p)
       /\ setJails' = Append(setJails, p)
  /\ UNCHANGED <<fs, fsChanges, path, gets, htdocs, pc, connVars, reqVars,
                 hist, procVars, io>>

Construct ==
  \E p \in Candidates :
    /\ path' = SandboxPath(p)
    /\ gets' = <<>>
    /\ UNCHANGED <<jail, fs, fsChanges, srvVars>>

Get ==
  /\ path.state = "ok"
  /\ Len(gets) < MaxGets
  /\ gets' = Append(gets, get(path))
  /\ UNCHANGED <<jail, fs, fsChanges, path, srvVars>>

FsChange ==
  /\ fsChanges < MaxFsChanges
  /\ \E p \in {P_a, P_secret} : \E n \in Variants(p) :
       /\ n # Lookup(fs, p)
       /\ fs' = [fs EXCEPT ![p] = n]
  /\ fsChanges' = fsChanges + 1
  /\ UNCHANGED <<jail, path, gets, srvVars>>

SboxNext == SetJail \/ Construct \/ Get \/ FsChange

SpecSandbox == SboxInit /\ [][SboxNext]_vars

----------------------------------------------------------------------------
(* The server: main, the accept loop and the handler of one connection *)

MaxShort == 2   \* most bytes a write or transfer that fails has sent

R_file   == <<"G", "E", "T", " ", "/", "a", "\n", "\n">>
R_root   == <<"g", "e", "t", " ", "/", "\r", "\n", "\r", "\n">>
R_bare   == <<"G", "E", "T", "\n", "\n">>
R_dotdot ==
  <<"G", "E", "T", " ", "/", "%", "2", "e", "%", "2", "e", "%", "2", "f",
    "s", "\n", "\n">>
R_put    == <<"P", "U", "T", " ", "/", "a", "\n", "\n">>
R_two    ==
  <<"G", "E", "T", " ", "/", "a", "\n", "G", "E", "T", " ", "/", "d", "\n",
    "\n">>
R_after  ==
  <<"G", "E", "T", " ", "/", "a", "\n", "\n", "G", "E", "T", " ", "/", "n">>
R_noterm == <<"G", "E", "T", " ", "/", "a", "\n">>
R_link   == <<"G", "E", "T", " ", "/", "l", "\n", "\n">>
R_twice  == <<"G", "E", "T", " ", "/", "%", "2", "5", "6", "1", "\n", "\n">>

Streams ==
  { Str0, R_file, R_root, R_bare, R_dotdot, R_put, R_two, R_after, R_noterm,
    R_link, R_twice }

RootArgs == {P_www, P_slash, <<"/", "n">>}

isDirectory(f, p) == Node(f, p).kind = "dir"
executable(f, p)  == Node(f, p).kind # "absent"

Min(a, b) == IF a < b THEN a ELSE b

\* the handle is used: remember a use that follows its close
Touch(h) ==
  [h EXCEPT !.lateOp = @ \/ (\E i \in 1..Len(h.fdLog) : h.fdLog[i] = "close")]

\* the calls cs are made on the handle, in this order
RECURSIVE Calls(_, _)
Calls(h, cs) ==
  IF cs = <<>> THEN h
  ELSE Calls(IF cs[1] = "valid"
             THEN [h EXCEPT !.fresh = TRUE]
             ELSE [h EXCEPT !.fresh = FALSE,
                            !.stale = IF h.fresh THEN @ ELSE @ \cup {cs[1]}],
             Tail(cs))

\* the calls of a safe_write or safe_sendfile loop asked for len bytes that
\* got n through: none for nothing to send, one that sends all or fails, and
\* at least one more after a call that sent a part
LoopCalls(op, n, len) ==
  IF len = 0 THEN <<>>
  ELSE IF 0 < n /\ n < len THEN <<op, op>>
  ELSE <<op>>

\* one turn of read_request that gets as far as read(): the loop's test,
\* ready() with its own test and select, then read
ReadTurn == <<"valid", "valid", "select", "read">>

\* the calls of the turn that ends read_request
LastTurn(why) ==
  IF why = "eof" THEN ReadTurn
  ELSE IF why = "invalid" THEN <<"valid">>
  ELSE <<>>

\* how many bytes a loop of write or sendfile calls may get through
Sent(n) ==
  IF fdValid THEN { k \in 0..n : k <= MaxShort \/ k = n } ELSE {0}

SrvInit ==
  /\ jail = Str0
  /\ fs = InitFs
  /\ fsChanges = 0
  /\ path = NoSandboxPath
  /\ gets = <<>>
  /\ htdocs = Str0
  /\ pc = "main"
  /\ ConnIdle
  /\ ReqIdle
  /\ LsnIdle
  /\ hist = NoHist

Main ==
  /\ pc = "main"
  /\ \E arg \in RootArgs :
       LET rpath == realPath(fs, arg)
       IN  IF isDirectory(fs, rpath) /\ executable(fs, rpath)
           THEN /\ htdocs' = rpath
                /\ jail' = setJail(rpath)
                /\ setJails' = Append(setJails, rpath)
                /\ pc' = "accept"
           ELSE /\ pc' = "exit"
                /\ UNCHANGED <<htdocs, jail, setJails>>
  /\ UNCHANGED <<fs, fsChanges, path, gets, connVars, reqVars, hist>>
  /\ UNCHANGED <<procVars, io>>

Accept ==
  \* begin: accept returns a valid handle and process_request is started
  /\ pc = "accept"
  /\ \E s \in Streams : stream' = s
  /\ fdValid' = TRUE
  /\ pc' = "start"
  /\ UNCHANGED <<sboxVars, htdocs, sent, rd, peerClosed, elapsed, request,
                 reqVars, hist>>
  /\ UNCHANGED lsnVars

ProcessStart ==
  /\ pc = "start"
  /\ IF fdValid
     THEN /\ pc' = "read"
          /\ hist' = Calls(Touch([hist EXCEPT !.startedValid = TRUE]),
                           <<"valid">>)
     ELSE /\ pc' = "done"
          /\ hist' = Calls(Touch(hist), <<"valid">>)
  /\ UNCHANGED <<sboxVars, htdocs, connVars, reqVars>>
  /\ UNCHANGED lsnVars

\* read_request returns: the text is trimmed and split into lines. Its locals
\* (request, start_time) end here, and nothing reads the socket again, so the
\* client's progress is not followed any further.
ReadReturn(req, why) ==
  /\ lines' = explode(trim(req), LF)
  /\ idx' = 1
  /\ pc' = "scan"
  /\ hist' = Calls(Touch([hist EXCEPT !.readEnd = why]), LastTurn(why))
  /\ request' = Str0
  /\ elapsed' = 0
  /\ sent' = 0
  /\ peerClosed' = FALSE
  /\ UNCHANGED rd

MayRead_NoDeadline == fdValid

MayRead ==
  \* line 450: duration < 3 seconds and valid(fd)
  elapsed < Deadline /\ fdValid

Aborted_Kept(req) == req

Aborted(req) ==
  \* request.clear() before the break
  Str0

ReadRequest ==
  \* one turn of read_request's loop: its test, then its body
  /\ pc = "read"
  /\ IF Terminated(request)
     THEN ReadReturn(request, "terminated")
     ELSE IF MayRead
     THEN /\ rd < sent \/ peerClosed        \* ready(fd, 0, 10000)
          /\ LET data_read == Min(sent - rd, BUFSIZE - 1)
             IN  IF data_read > 0
                 THEN /\ request' = request \o
                           CrlfToLf(SubSeq(stream, rd + 1, rd + data_read), 1)
                      /\ rd' = rd + data_read
                      /\ hist' = Calls(Touch(hist), ReadTurn)
                      /\ UNCHANGED <<lines, idx, pc, sent, peerClosed, elapsed>>
                 ELSE ReadReturn(Aborted(request), "eof")
     ELSE ReadReturn(Aborted(request),
                     IF elapsed < Deadline THEN "invalid" ELSE "timeout")
  /\ UNCHANGED <<sboxVars, htdocs, stream, fdValid, cand, file, fsize, written>>
  /\ UNCHANGED lsnVars

\* the end of one turn of process_request's loop over the lines
NextLine ==
  /\ idx' = idx + 1
  /\ pc' = "scan"
  /\ path' = NoSandboxPath
  /\ gets' = <<>>
  /\ fsize' = 0

AfterLoop_Return == "done"

AfterLoop == "close"

Scan ==
  \* the head of the loop over the lines, up to the SandboxPath constructor
  /\ pc = "scan"
  /\ IF idx > Len(lines)
     THEN /\ pc' = AfterLoop
          /\ UNCHANGED <<path, gets, idx, cand, hist>>
     ELSE IF IsGet(lines[idx])
     THEN /\ \E c \in Candidate(lines[idx]) :
               /\ cand' = c
               /\ path' = SandboxPath(c)
          /\ gets' = <<>>
          /\ pc' = IF path'.state = "ok" THEN "get1" ELSE "deny"
          /\ hist' = [hist EXCEPT !.getLines = @ + 1]
          /\ UNCHANGED idx
     ELSE /\ idx' = idx + 1
          /\ UNCHANGED <<path, gets, pc, cand, hist>>
  /\ UNCHANGED <<jail, fs, fsChanges, htdocs, connVars, lines, file, fsize,
                 written>>
  /\ UNCHANGED lsnVars

Get1 ==
  \* path.get() in the argument of debug(), line 415
  /\ pc = "get1"
  /\ gets' = Append(gets, get(path))
  /\ pc' = IF get(path) THEN "dump" ELSE "deny"
  /\ UNCHANGED <<jail, fs, fsChanges, path, htdocs, connVars, reqVars, hist>>
  /\ UNCHANGED lsnVars

DumpFile ==
  \* dump_file up to path.get()
  /\ pc = "dump"
  /\ hist' = Calls(Touch(hist), <<"valid">>)
  /\ IF fdValid
     THEN /\ gets' = Append(gets, get(path))
          /\ pc' = IF get(path) THEN "open" ELSE "deny"
          /\ UNCHANGED <<path, idx, fsize>>
     ELSE NextLine
  /\ UNCHANGED <<jail, fs, fsChanges, htdocs, connVars, lines, cand, file,
                 written>>
  /\ UNCHANGED lsnVars

Open ==
  \* open(path.get().c_str(), O_RDONLY) and valid(file)
  /\ pc = "open"
  /\ LET node == Node(fs, path.rpath)
     IN  IF node.kind \in {"file", "dir"} /\ node.readable
         THEN /\ file' = [open |-> TRUE, data |-> node.data,
                          from |-> realPath(fs, path.rpath)]
              /\ hist' = [hist EXCEPT
                            !.opened = Append(@, realPath(fs, path.rpath))]
              /\ pc' = IF node.kind = "file" THEN "size" ELSE "sizedir"
         ELSE /\ pc' = "fclose"
              /\ UNCHANGED <<file, hist>>
  /\ UNCHANGED <<sboxVars, htdocs, connVars, lines, idx, cand, fsize, written>>
  /\ UNCHANGED lsnVars

Size ==
  \* lseek64 to the end of a regular file and back
  /\ pc = "size"
  /\ fsize' = Len(file.data)
  /\ pc' = "hdr"
  /\ UNCHANGED <<sboxVars, htdocs, connVars, lines, idx, cand, file, written,
                 hist>>
  /\ UNCHANGED lsnVars

AfterSizeFailure_Return == "scan"

AfterSizeFailure ==
  \* the if of line 274 is skipped and close(file) follows
  "fclose"

SizeDir ==
  \* lseek64 on a directory that took the file's place: the file system
  \* decides whether it fails or which offset it reports
  /\ pc = "sizedir"
  /\ \E r \in {-1, 0, 1} :
       IF r >= 0
       THEN fsize' = r /\ pc' = "hdr"
       ELSE pc' = AfterSizeFailure /\ UNCHANGED fsize
  /\ UNCHANGED <<sboxVars, htdocs, connVars, lines, idx, cand, file, written,
                 hist>>
  /\ UNCHANGED lsnVars

AfterHeader_Raise(n) == IF n < Len(Response200(fsize)) THEN "deny" ELSE "body"

AfterHeader(n) ==
  \* safe_write's result is dropped: the next statement follows
  "body"

WriteHeader ==
  \* safe_write(fd, response): its result is not looked at
  /\ pc = "hdr"
  /\ \E n \in Sent(Len(Response200(fsize))) :
       /\ written' = written \o SubSeq(Response200(fsize), 1, n)
       /\ hist' = Calls(Touch([hist EXCEPT
                          !.responses = Append(@, "200"),
                          !.short = @ \/ n < Len(Response200(fsize))]),
                        LoopCalls("write", n, Len(Response200(fsize))))
       /\ pc' = AfterHeader(n)
  /\ UNCHANGED <<sboxVars, htdocs, connVars, lines, idx, cand, file, fsize>>
  /\ UNCHANGED lsnVars

SendFile ==
  \* safe_sendfile(file, fd, fsize)
  /\ pc = "body"
  /\ \E n \in Sent(Min(fsize, Len(file.data))) :
       /\ written' = written \o SubSeq(file.data, 1, n)
       /\ hist' = Calls(Touch([hist EXCEPT !.short = @ \/ n < fsize]),
                        LoopCalls("sendfile", n, fsize))
  /\ pc' = "fclose"
  /\ UNCHANGED <<sboxVars, htdocs, connVars, lines, idx, cand, file, fsize>>
  /\ UNCHANGED lsnVars

CloseFile ==
  \* close(file), and the end of the try block
  /\ pc = "fclose"
  /\ file' = NoFile
  /\ hist' = [hist EXCEPT !.fcloses = IF file.open THEN @ + 1 ELSE @]
  /\ NextLine
  /\ UNCHANGED <<jail, fs, fsChanges, htdocs, connVars, lines, cand, written>>
  /\ UNCHANGED lsnVars

Deny ==
  \* the catch block: access_denied(fd, message)
  /\ pc = "deny"
  /\ IF fdValid
     THEN /\ \E n \in Sent(Len(Response403(DeniedMessage))) :
               /\ written' = written \o
                               SubSeq(Response403(DeniedMessage), 1, n)
               /\ hist' = Calls(Touch([hist EXCEPT
                                  !.responses = Append(@, "403"),
                                  !.short = @ \/
                                    n < Len(Response403(DeniedMessage))]),
                                <<"valid">> \o
                                  LoopCalls("write", n,
                                            Len(Response403(DeniedMessage))))
     ELSE /\ hist' = Calls(Touch(hist), <<"valid">>)
          /\ UNCHANGED written
  /\ NextLine
  /\ UNCHANGED <<jail, fs, fsChanges, htdocs, connVars, lines, cand, file>>
  /\ UNCHANGED lsnVars

AfterClose_Again == "close"

AfterClose == "done"

Close ==
  \* shutdown(fd, SHUT_RDWR); close(fd)
  /\ pc = "close"
  /\ hist' = [Touch(hist) EXCEPT !.fdLog = @ \o <<"shutdown", "close">>]
  /\ fdValid' = FALSE
  /\ pc' = AfterClose
  /\ UNCHANGED <<sboxVars, htdocs, stream, sent, rd, peerClosed, elapsed,
                 request, reqVars>>
  /\ UNCHANGED lsnVars

(* What happens around the handler *)

Delivered == CrlfToLf(SubSeq(stream, 1, sent), 1)

Deliver ==
  \* more of the client's bytes reach the socket
  /\ pc = "read"
  /\ ~peerClosed
  /\ \E n \in (sent + 1)..Len(stream) : sent' = n
  /\ UNCHANGED <<sboxVars, htdocs, pc, stream, rd, peerClosed, fdValid, elapsed,
                 request, reqVars, hist>>
  /\ UNCHANGED lsnVars

PeerClose ==
  \* the client closes its end: once the socket is drained, read returns 0
  /\ pc = "read"
  /\ ~peerClosed
  /\ peerClosed' = TRUE
  /\ UNCHANGED <<sboxVars, htdocs, pc, stream, sent, rd, fdValid, elapsed,
                 request, reqVars, hist>>
  /\ UNCHANGED lsnVars

Tick ==
  \* a second passes while read_request runs
  /\ pc = "read"
  /\ elapsed < Deadline
  /\ elapsed' = elapsed + 1
  /\ hist' = [hist EXCEPT
                !.late = @ \/ (elapsed' = Deadline /\ ~Terminated(Delivered))]
  /\ UNCHANGED <<sboxVars, htdocs, pc, stream, sent, rd, peerClosed, fdValid,
                 request, reqVars>>
  /\ UNCHANGED lsnVars

Invalidate ==
  \* the handle stops being a valid descriptor under the handler
  /\ pc \in {"start", "read", "scan", "get1", "dump", "open", "size",
             "sizedir", "hdr", "body", "fclose", "deny", "close"}
  /\ fdValid
  /\ fdValid' = FALSE
  /\ hist' = [hist EXCEPT !.invalidated = TRUE]
  /\ UNCHANGED <<sboxVars, htdocs, pc, stream, sent, rd, peerClosed, elapsed,
                 request, reqVars>>
  /\ UNCHANGED lsnVars

FsRace ==
  \* another process changes the served tree while a request is handled
  /\ pc \in {"scan", "get1", "dump", "open"}
  /\ idx <= Len(lines)
  /\ fsChanges < MaxFsChanges
  /\ \E p \in {P_a, P_secret} : \E n \in Variants(p) :
       /\ n # Lookup(fs, p)
       /\ fs' = [fs EXCEPT ![p] = n]
  /\ fsChanges' = fsChanges + 1
  /\ UNCHANGED <<jail, path, gets, srvVars>>

Next ==
  \/ Main
  \/ Accept
  \/ ProcessStart
  \/ ReadRequest
  \/ Scan
  \/ Get1
  \/ DumpFile
  \/ Open
  \/ Size
  \/ SizeDir
  \/ WriteHeader
  \/ SendFile
  \/ CloseFile
  \/ Deny
  \/ Close
  \/ Deliver
  \/ PeerClose
  \/ Tick
  \/ Invalidate
  \/ FsRace

Spec == SrvInit /\ [][Next]_vars

----------------------------------------------------------------------------
(* The process: begin's accept loop and one detached thread per connection.
   The handler is the one above, taken a line at a time. *)

R_index   ==
  <<"G", "E", "T", " ", "/", "i", "n", "d", "e", "x", ".", "h", "t", "m", "l",
    "\n", "\n">>
R_outmiss ==
  <<"G", "E", "T", " ", "/", "%", "2", "e", "%", "2", "e", "%", "2", "f",
    "n", "\n", "\n">>
R_missing == <<"G", "E", "T", " ", "/", "n", "\n", "\n">>
R_unread  == <<"G", "E", "T", " ", "/", "u", "\n", "\n">>
R_pct     == <<"G", "E", "T", " ", "/", "%", "6", "1", "\n", "\n">>

\* a client that sends r and reads the answer, and one that never reads
Reader(r) == [req |-> r, reads |-> TRUE]
Deaf(r)   == [req |-> r, reads |-> FALSE]

\* the clients of a run: they arrive in this order, again from the first
\* when there are more connections than entries
Workloads ==
  { <<Reader(R_root), Reader(R_bare)>>,
    <<Reader(R_bare), Reader(R_index)>>,
    <<Reader(R_index), Reader(R_root)>>,
    <<Reader(R_dotdot), Reader(R_outmiss)>>,
    <<Reader(R_unread), Reader(R_dotdot)>>,
    <<Reader(R_missing), Reader(R_unread)>>,
    <<Reader(R_pct), Reader(R_pct)>>,
    <<Reader(R_two), Reader(R_file)>>,
    <<Reader(Str0), Reader(R_file)>>,
    <<Deaf(R_file), Reader(R_file)>>,
    <<Deaf(R_file), Reader(R_dotdot)>>,
    <<Reader(R_file), Deaf(R_file)>> }

Client(c) == load[((c - 1) % Len(load)) + 1]

MinOf(S) == CHOOSE x \in S : \A y \in S : x <= y

\* the process runs: main is inside begin and nothing has ended it
Alive == pc = "accept" /\ ~lhist.crashed

Target(t) == fdt[thr[t].fd]

\* thread t operates on its descriptor
Use(t) == [lhist EXCEPT !.foreign = @ \/ Target(t) \notin {0, t}]

ReadResult(req) ==
  \* read_request on a client that sends req and then waits
  LET text == CrlfToLf(req, 1)
  IN  explode(trim(IF Terminated(text) THEN text ELSE Aborted(text)), LF)

\* the call inside the try block that throws for candidate c
Raises(c) ==
  IF SandboxPath(c).state # "ok" THEN "SandboxPath"
  ELSE IF ~get(SandboxPath(c)) THEN "get"
  ELSE "none"

TryBlock_DumpOnly == {"dump_file"}

TryBlock == {"urldecode", "SandboxPath", "get", "dump_file"}

Denial_What(site) == Response403(DeniedMessage \o <<site>>)

Denial(site) ==
  \* the catch block: the same message whatever was thrown
  Response403(DeniedMessage)

\* the first GET line at position i or later, 0 when there is none
NextGet(ls, i) ==
  LET G == { k \in i..Len(ls) : IsGet(ls[k]) }
  IN  IF G = {} THEN 0 ELSE MinOf(G)

\* where the loop over the lines goes on after position i
Onward(ls, i) == IF NextGet(ls, i) = 0 THEN AfterLoop ELSE "scan"

Respond(t, c, status, bytes, ex) ==
  /\ conns' = IF Target(t) = 0 THEN conns
              ELSE [conns EXCEPT ![Target(t)].recv = @ \o bytes]
  /\ thr' = [thr EXCEPT
               ![t].idx = NextGet(thr[t].lines, @) + 1,
               ![t].pc = Onward(thr[t].lines, NextGet(thr[t].lines, thr[t].idx) + 1),
               ![t].cand = c,
               ![t].log = IF Target(t) = 0 THEN @ ELSE Append(@, status),
               ![t].threw = @ + ex]
  /\ lhist' = Use(t)

HStart(t) ==
  \* process_request: valid(fd), then read_request
  /\ Alive
  /\ thr[t].pc = "start"
  /\ \/ /\ Target(t) # 0
        /\ thr' = [thr EXCEPT
                     ![t].pc = "scan",
                     ![t].idx = 1,
                     ![t].lines = ReadResult(conns[Target(t)].req)]
     \/ /\ Target(t) = 0
        /\ thr' = [thr EXCEPT ![t].pc = "done"]
  /\ lhist' = Use(t)
  /\ UNCHANGED <<jail, fs, htdocs, pc, oneVars, load, sockfd, lsn, fdt, conns>>

HLine(t) ==
  \* the loop over the lines, up to the end of the turn for its next GET
  \* line, or to its end when no GET line is left
  /\ Alive
  /\ thr[t].pc = "scan"
  /\ IF NextGet(thr[t].lines, thr[t].idx) = 0
     THEN /\ thr' = [thr EXCEPT ![t].pc = AfterLoop]
          /\ UNCHANGED <<conns, lhist>>
     ELSE \E c \in Candidate(thr[t].lines[NextGet(thr[t].lines, thr[t].idx)]) :
            IF Raises(c) = "none"
            THEN \* dump_file; sendfile waits for a client that reads
                 /\ IF Target(t) = 0 THEN TRUE ELSE conns[Target(t)].reads
                 /\ LET data == Node(fs, SandboxPath(c).rpath).data
                    IN  Respond(t, c, "200",
                                Response200(Len(data)) \o data, 0)
            ELSE IF Raises(c) \in TryBlock
            THEN Respond(t, c, "403", Denial(Raises(c)), 1)
            ELSE \* nothing catches it: std::terminate
                 /\ lhist' = [lhist EXCEPT !.crashed = TRUE]
                 /\ thr' = [thr EXCEPT ![t].threw = @ + 1]
                 /\ UNCHANGED conns
  /\ UNCHANGED <<jail, fs, htdocs, pc, oneVars, load, sockfd, lsn, fdt>>

HClose(t) ==
  \* shutdown(fd, SHUT_RDWR); close(fd)
  /\ Alive
  /\ thr[t].pc = "close"
  /\ IF Target(t) = 0
     THEN UNCHANGED <<fdt, conns>>
     ELSE /\ fdt' = [fdt EXCEPT ![thr[t].fd] = 0]
          /\ conns' = [conns EXCEPT ![Target(t)].closed = TRUE]
  /\ thr' = [thr EXCEPT ![t].pc = AfterClose]
  /\ lhist' = Use(t)
  /\ UNCHANGED <<jail, fs, htdocs, pc, oneVars, load, sockfd, lsn>>

Handler(t) == HStart(t) \/ HLine(t) \/ HClose(t)

Begin ==
  \* begin up to its loop: prepare_socket, the change of user, daemon; what
  \* they throw goes back to main, which exits
  /\ pc = "accept"
  /\ lsn.pc = "idle"
  /\ \/ /\ sockfd' = "open"
        /\ lsn' = [lsn EXCEPT !.pc = "loop"]
        /\ UNCHANGED pc
     \/ /\ lsn' = [lsn EXCEPT !.pc = "exit"]
        /\ pc' = "exit"
        /\ UNCHANGED sockfd
  /\ UNCHANGED <<jail, fs, htdocs, oneVars, load, fdt, conns, thr, lhist>>

AfterFailedAccept_Break == "exit"

AfterFailedAccept == "loop"

AcceptOnce ==
  \* one turn of the loop: valid(_sockfd), ready, accept, valid(clifd) and
  \* std::thread(process_request, clifd).detach()
  /\ Alive
  /\ lsn.pc = "loop"
  /\ sockfd = "open"
  /\ LET queue == {c \in ConnIds : conns[c].state = "queued"}
         free  == {n \in DOMAIN fdt : fdt[n] = 0}
     IN  \/ /\ queue # {}
            /\ free # {}
            /\ fdt' = [fdt EXCEPT ![MinOf(free)] = MinOf(queue)]
            /\ conns' = [conns EXCEPT ![MinOf(queue)].state = "accepted"]
            /\ thr' = [thr EXCEPT
                         ![MinOf(queue)] =
                           [NoThread EXCEPT !.pc = "start", !.fd = MinOf(free)]]
            /\ lhist' = [lhist EXCEPT !.spawned[MinOf(queue)] = @ + 1]
            /\ UNCHANGED lsn
         \/ \* accept fails and no thread is started; it may have thrown
            \* away a connection that was reset while it waited
            /\ \/ UNCHANGED conns
               \/ /\ queue # {}
                  /\ conns' = [conns EXCEPT ![MinOf(queue)].state = "dropped"]
            /\ lsn' = [lsn EXCEPT !.pc = AfterFailedAccept]
            /\ UNCHANGED <<fdt, thr, lhist>>
  /\ UNCHANGED <<jail, fs, htdocs, pc, oneVars, load, sockfd>>

LAccept_AfterJoin ==
  /\ \A t \in ConnIds : thr[t].pc \in {"none", "done"}
  /\ AcceptOnce

LAccept == AcceptOnce

LExit ==
  \* valid(_sockfd) fails: begin returns, main returns and the process ends
  \* with all its threads and descriptors; nothing is followed after that
  /\ Alive
  /\ lsn.pc = "loop"
  /\ sockfd = "open"
  /\ sockfd' = "invalid"
  /\ lsn' = [pc |-> "exit"]
  /\ pc' = "exit"
  /\ fdt' = [n \in ConnIds |-> 0]
  /\ conns' = [c \in ConnIds |-> NoConn]
  /\ thr' = [c \in ConnIds |-> NoThread]
  /\ lhist' = NoLhist
  /\ UNCHANGED <<jail, fs, htdocs, oneVars, load>>

(* What happens around the process *)

Connect ==
  \* the next client of the run connects
  /\ sockfd = "open"
  /\ \E c \in ConnIds :
       /\ conns[c].state = "new"
       /\ IF c = 1 THEN TRUE ELSE conns[c - 1].state # "new"
       /\ conns' = [conns EXCEPT
                      ![c] = [NoConn EXCEPT
                                !.state = "queued",
                                !.req = Client(c).req,
                                !.reads = Client(c).reads]]
  /\ UNCHANGED <<jail, fs, htdocs, pc, oneVars, load, sockfd, lsn, fdt, thr, lhist>>

LsnNext ==
  \/ Main
  \/ Begin
  \/ LAccept
  \/ LExit
  \/ Connect
  \/ \E t \in ConnIds : HStart(t)
  \/ \E t \in ConnIds : HLine(t)
  \/ \E t \in ConnIds : HClose(t)

LsnInit ==
  /\ jail = Str0
  /\ fs = InitFs
  /\ fsChanges = 0
  /\ path = NoSandboxPath
  /\ gets = <<>>
  /\ htdocs = Str0
  /\ pc = "main"
  /\ ConnIdle
  /\ ReqIdle
  /\ hist = NoHist
  /\ sockfd = "none"
  /\ lsn = [pc |-> "idle"]
  /\ fdt = [n \in ConnIds |-> 0]
  /\ conns = [c \in ConnIds |-> NoConn]
  /\ thr = [c \in ConnIds |-> NoThread]
  /\ lhist = NoLhist
  /\ load \in Workloads
  /\ setJails = <<>>
  /\ io = NoIo

SpecListener == LsnInit /\ [][LsnNext]_vars

----------------------------------------------------------------------------
(* safe_write and safe_sendfile, called with arbitrary arguments on        *)
(* descriptors whose write and sendfile calls return what the kernel may   *)
(* return                                                                  *)

MaxCalls == 4   \* write or sendfile calls followed within one loop

IoData == { Str0, <<"a">>, <<"a", "b">>, <<"a", "b", "c">> }

\* data_length as the caller measured it; the file may have been cut or
\* extended since
IoLengths == 0..3

\* write(fd, buf, count) with count > 0 on a socket: an error, or at least
\* one and at most count bytes
write_returns(count) == {-1} \cup 1..count

\* sendfile64(out, in, &offset, count): an error, or at least one and at most
\* count of the bytes the file has from offset on; 0 at the end of the file
sendfile_returns(size, offset, count) ==
  LET avail == Min(count, IF size > offset THEN size - offset ELSE 0)
  IN  {-1} \cup (IF avail = 0 THEN {0} ELSE 1..avail)

WriteFrom_Start(l) == 0

WriteFrom(l) ==
  \* data_buf + data_sent
  l.data_sent

SendfileCount_Whole(l) == l.data_length

SendfileCount(l) ==
  \* data_length - data_sent
  l.data_length - l.data_sent

LoopTest(l) ==
  \* while (return_val >= 0 && data_sent < data_length)
  l.return_val >= 0 /\ l.data_sent < l.data_length

Transferred(r) == IF r > 0 THEN r ELSE 0

IoFrame ==
  UNCHANGED <<sboxVars, htdocs, pc, connVars, reqVars, hist, procVars,
              setJails>>

CallSafeWrite ==
  /\ pc = "io"
  /\ io.pc = "idle"
  /\ \E d \in IoData :
       io' = [NoIo EXCEPT !.fn = "safe_write", !.pc = "loop",
                          !.data = d, !.data_length = Len(d)]
  /\ IoFrame

CallSafeSendfile ==
  /\ pc = "io"
  /\ io.pc = "idle"
  /\ \E d \in IoData : \E n \in IoLengths :
       io' = [NoIo EXCEPT !.fn = "safe_sendfile", !.pc = "loop",
                          !.data = d, !.data_length = n]
  /\ IoFrame

WriteLoop ==
  \* the loop's test and, when it holds, one turn of its body
  /\ io.fn = "safe_write"
  /\ io.pc = "loop"
  /\ IF LoopTest(io)
     THEN /\ Len(io.log) < MaxCalls
          /\ \E r \in write_returns(io.data_length - io.data_sent) :
               io' = [io EXCEPT
                        !.return_val = r,
                        !.data_sent = IF r >= 0 THEN @ + r ELSE @,
                        !.out = @ \o SubSeq(io.data, WriteFrom(io) + 1,
                                            WriteFrom(io) + Transferred(r)),
                        !.log = Append(@, [at    |-> WriteFrom(io),
                                           count |-> io.data_length
                                                       - io.data_sent,
                                           ret   |-> r])]
     ELSE io' = [io EXCEPT !.pc = "done",
                           !.result = (io.data_sent = io.data_length)]
  /\ IoFrame

SendfileLoop ==
  \* the loop's test and, when it holds, its body: the kernel advances
  \* data_sent through the pointer it is given
  /\ io.fn = "safe_sendfile"
  /\ io.pc = "loop"
  /\ IF LoopTest(io)
     THEN /\ Len(io.log) < MaxCalls
          /\ \E r \in sendfile_returns(Len(io.data), io.data_sent,
                                        SendfileCount(io)) :
               io' = [io EXCEPT
                        !.return_val = r,
                        !.data_sent = @ + Transferred(r),
                        !.out = @ \o SubSeq(io.data, io.data_sent + 1,
                                            io.data_sent + Transferred(r)),
                        !.log = Append(@, [at    |-> io.data_sent,
                                           count |-> SendfileCount(io),
                                           ret   |-> r])]
     ELSE io' = [io EXCEPT !.pc = "done",
                           !.result = (io.data_sent = io.data_length)]
  /\ IoFrame

IoReturn ==
  \* the caller has the result
  /\ io.pc = "done"
  /\ io' = NoIo
  /\ IoFrame

IoNext ==
  CallSafeWrite \/ CallSafeSendfile \/ WriteLoop \/ SendfileLoop \/ IoReturn

IoInit ==
  /\ jail = Str0
  /\ fs = InitFs
  /\ fsChanges = 0
  /\ path = NoSandboxPath
  /\ gets = <<>>
  /\ htdocs = Str0
  /\ pc = "io"
  /\ ConnIdle
  /\ ReqIdle
  /\ LsnIdle
  /\ hist = NoHist

SpecIO == IoInit /\ [][IoNext]_vars

----------------------------------------------------------------------------
(* Properties *)

Last(q) == q[Len(q)]

\* p begins with root + "/" and has at least one character after it
BelowRoot(root, p) ==
  /\ Len(p) > Len(root) + 1
  /\ \A i \in 1..Len(root) : p[i] = root[i]
  /\ p[Len(root) + 1] = "/"

\* the names on the way from / to p
Names(p) == SelectSeq(explode(p, "/"), LAMBDA c : c # Str0)

\* p names something strictly inside the directory root
Descendant(root, p) ==
  /\ Len(Names(p)) > Len(Names(root))
  /\ SubSeq(Names(p), 1, Len(Names(root))) = Names(root)

\* the file behind p is there, is a regular file and can be read
Servable(f, p) ==
  /\ realPath(f, p) # Str0
  /\ Lookup(f, realPath(f, p)).kind = "file"
  /\ Lookup(f, realPath(f, p)).readable

\* the first whitespace-delimited token of a line
RECURSIVE FirstToken(_)
FirstToken(l) ==
  IF l = Str0 THEN Str0
  ELSE IF l[1] \in Whitespace THEN FirstToken(Tail(l))
  ELSE LET ends == { i \in 1..Len(l) : l[i] \in Whitespace }
       IN  IF ends = {} THEN l
           ELSE SubSeq(l, 1, (CHOOSE i \in ends : \A j \in ends : i <= j) - 1)

NoGetLine ==
  \A i \in 1..Len(lines) : strtolower(FirstToken(lines[i])) # <<"g", "e", "t">>

EmptyResult == \A i \in 1..Len(lines) : lines[i] = Str0

NothingSent ==
  written = Str0 /\ hist.responses = <<>> /\ hist.opened = <<>>

Released == hist.fdLog = <<"shutdown", "close">>

(* C1: with a jail set, constructing a SandboxPath succeeds exactly when the
   canonical path begins with root + "/" and has a character after it, and
   then the path lies strictly inside the root; the root itself, a sibling
   whose name starts like the root, a path outside it and a path with no
   canonical form are all refused. *)
C1_ContainmentDecidesConstruction ==
  (path.state # "none" /\ jail # Str0) =>
    /\ (path.state = "ok") <=> BelowRoot(jail, path.real)
    /\ path.state = "ok" => (path.rpath = path.real /\ Descendant(jail, path.real))
    /\ path.real \in {Str0, jail, P_www2, P_x, P_secret} => path.state = "denied"

C1_SiblingRefused ==
  jail = P_www /\ path.state = "denied" /\ path.real = P_x

(* C4: every call of get() on a SandboxPath succeeds exactly when, at that
   call, the target exists, is a regular file and is readable, whatever the
   earlier calls returned. *)
C4_GetJudgesAtTheCall ==
  [][ (path.state = "ok" /\ path' = path /\ Len(gets') = Len(gets) + 1)
        => (Last(gets') <=> Servable(fs, path.rpath)) ]_vars

C4_OutcomeFlipped ==
  path.state = "ok" /\ Len(gets) = 2 /\ gets[1] /\ ~gets[2] /\ fsChanges = 1

(* C2: a file is opened, a 200 response begun or a byte written next to an
   open file only while the handler holds a SandboxPath that was built from
   the candidate of the current line and lies below the jail root. *)
C2_ServeOnlyAfterContainment ==
  [][ ( \/ hist'.opened # hist.opened
        \/ (hist'.responses # hist.responses /\ Last(hist'.responses) = "200")
        \/ (file.open /\ written' # written) )
      => /\ path.state = "ok"
         /\ path.rpath = path.real
         /\ BelowRoot(jail, path.rpath)
         /\ cand \in Candidate(lines[idx]) ]_vars

C2_FileServed ==
  /\ pc = "fclose"
  /\ path.state = "ok"
  /\ hist.responses = <<"200">>
  /\ written = Response200(1) \o <<"A">>

(* C3: the string given to the containment check has no percent escape left
   in it; when it does not canonicalize below the root the constructor
   refuses it, no file is opened for that line and the line is answered with
   a 403. *)
C3_DecodedBeforeContainment ==
  [][ /\ path'.state # "none" =>
           /\ regex_search(cand') = 0
           /\ ~BelowRoot(jail', path'.real) => (path'.state = "denied" /\ pc' = "deny")
      /\ path.state = "denied" => (hist'.opened = hist.opened /\ ~file'.open)
      /\ (path.state = "denied" /\ path'.state = "none" /\ fdValid) =>
           hist'.responses = Append(hist.responses, "403") ]_vars

C3_EncodedTraversalDenied ==
  /\ stream = R_dotdot
  /\ cand = P_www \o <<"/", "/", ".", ".", "/", "s">>
  /\ pc = "done"
  /\ hist.responses = <<"403">>
  /\ hist.opened = <<>>

(* C5: when the handler has finished and the handle was valid throughout,
   every GET line it acted on has had exactly one response begun. *)
C5_EveryGetAnswered ==
  (pc = "done" /\ hist.startedValid /\ ~hist.invalidated) =>
    Len(hist.responses) = hist.getLines

(* C6: on one connection at most one GET line is acted on and at most one
   response is begun. *)
C6_OnlyFirstGetHonored ==
  hist.getLines <= 1 /\ Len(hist.responses) <= 1

(* C7: a process_request that found its handle valid ends with exactly one
   shutdown followed by one close of it, on every path, and never uses the
   handle afterwards. *)
C7_ReleasedExactlyOnce ==
  /\ ~hist.lateOp
  /\ hist.fdLog \in {<<>>, <<"shutdown", "close">>}
  /\ hist.fdLog # <<>> => pc = "done"
  /\ (pc = "done" /\ hist.startedValid) => Released

C7_ClosedAfterFailedWrite ==
  /\ pc = "done"
  /\ Released
  /\ hist.responses = <<"200">>
  /\ Len(written) < Len(Response200(1))
  /\ ~hist.invalidated

(* C8: when no line of the header set has GET (in any case) as its first
   whitespace-delimited token, nothing is written to the connection, no
   response is begun and no file is opened. *)
C8_NoGetNoResponse ==
  NoGetLine => (NothingSent /\ pc \notin {"get1", "dump", "open", "size",
                                          "sizedir", "hdr", "body", "fclose",
                                          "deny"})

C8_OtherMethodClosed ==
  /\ stream = R_put
  /\ hist.readEnd = "terminated"
  /\ lines = <<<<"P", "U", "T", " ", "/", "a">>>>
  /\ pc = "done"
  /\ Released
  /\ written = Str0

(* C9: once the 3 seconds have passed with no blank line delivered by the
   client, read_request reads no further byte and returns an empty result,
   nothing is written to the connection, and the handler ends with the
   connection closed. *)
C9_DeadlineEndsInSilence ==
  [][ hist.late =>
        /\ rd' = rd
        /\ hist'.readEnd \in {"none", "timeout"}
        /\ hist'.readEnd # "none" => EmptyResult'
        /\ NothingSent'
        /\ pc' = "done" => Released' ]_vars

C9_TimedOutWhileSending ==
  /\ hist.late
  /\ stream = R_noterm
  /\ rd > 0
  /\ pc = "done"
  /\ Released

(* C10: when read_request's loop ends because the handle is invalid or a
   read returned no byte, the result is empty whatever had been accumulated,
   and the handler writes nothing, begins no response and opens no file. *)
C10_AbortDiscardsRequest ==
  hist.readEnd \in {"invalid", "eof"} => (EmptyResult /\ NothingSent)

C10_GetLineDiscarded ==
  /\ hist.readEnd = "eof"
  /\ stream = R_noterm
  /\ rd = Len(R_noterm)
  /\ pc = "done"
  /\ written = Str0

IsPrefix(a, b) == Len(a) <= Len(b) /\ a = SubSeq(b, 1, Len(a))

\* the 200 response for a file of these bytes, as the claims spell it
FileResponse(data) ==
  StatusOk \o ContentLength \o to_string(Len(data)) \o <<CR, LF, CR, LF>>
    \o data

(* C11: when the first GET line of a connection leads to a 200 response and
   no write or transfer fell short, the bytes written when dump_file closes the file
   are the status line, a Content-Length of N, an empty line and the N bytes
   of the file from its start, N being the size of the file that was
   opened. *)
C11_FileResponseExact ==
  (/\ pc = "fclose" /\ file.open /\ hist.getLines = 1
   /\ hist.responses = <<"200">> /\ ~hist.short) =>
    /\ fsize = Len(file.data)
    /\ written = FileResponse(file.data)

C11_IndexServed ==
  /\ pc = "fclose"
  /\ file.open
  /\ ~hist.short
  /\ stream = R_root
  /\ file.from = P_index
  /\ written = FileResponse(<<"h", "i">>)

(* C12: every step that writes bytes for the first GET line of a connection
   leaves on the connection a prefix of the 200 header followed by the bytes
   of the opened file, or a prefix of the 403 header, whose Content-Length is
   the length of the fixed message, followed by that message. *)
C12_OnlyTwoShapes ==
  [][ (written' # written /\ hist'.getLines = 1) =>
        \/ IsPrefix(written', Response200(fsize) \o file.data)
        \/ IsPrefix(written',
                    StatusForbidden \o ContentLength
                      \o to_string(Len(DeniedMessage)) \o <<CR, LF, CR, LF>>
                      \o DeniedMessage) ]_vars

(* C20: while read_request runs, the request it has accumulated is terminated
   exactly when the bytes read so far, with every CR LF rewritten to LF, hold
   an empty line, however the reads divided them. *)
C20_ChunkingIrrelevant ==
  pc = "read" =>
    (Terminated(request) <=> Terminated(CrlfToLf(SubSeq(stream, 1, rd), 1)))

(* Properties of the process *)

Running(t) == thr[t].pc \in {"start", "scan", "close"}

Finished(t) == thr[t].pc = "done"

\* the 403 response, as the claims spell it
DenialResponse ==
  StatusForbidden \o ContentLength \o to_string(Len(DeniedMessage))
    \o <<CR, LF, CR, LF>> \o DeniedMessage

IndexRequests == {R_root, R_bare, R_index}

(* C13: any two connections that were each answered with one 403 have
   received the same bytes, whichever call raised the failure (the
   constructor, for a path that leaves the root or does not exist, or get(),
   for a file that cannot be read) and whether or not the path asked for
   exists outside the root. *)
C13_DenialIsUniform ==
  \A s, t \in ConnIds :
    (thr[s].log = <<"403">> /\ thr[t].log = <<"403">>) =>
      conns[s].recv = conns[t].recv

C13_TwoCausesOneAnswer ==
  /\ conns[1].req = R_unread /\ thr[1].log = <<"403">>
  /\ SandboxPath(thr[1].cand).rpath = P_u
  /\ conns[2].req = R_dotdot /\ thr[2].log = <<"403">>
  /\ conns[1].recv = DenialResponse
  /\ conns[2].recv = DenialResponse

(* C14: connections that asked "get /", "GET" and "GET /index.html" and have
   been handled were resolved to the same candidate path and have received
   the same bytes. *)
C14_IndexAliases ==
  \A s, t \in ConnIds :
    (/\ conns[s].req \in IndexRequests /\ Finished(s)
     /\ conns[t].req \in IndexRequests /\ Finished(t)) =>
      /\ thr[s].cand = thr[t].cand
      /\ conns[s].recv = conns[t].recv

C14_RootServedAsIndex ==
  /\ conns[1].req = R_index /\ Finished(1)
  /\ conns[2].req = R_root /\ Finished(2)
  /\ thr[2].cand = P_www \o <<"/">> \o INDEX
  /\ conns[2].recv = FileResponse(<<"h", "i">>)

(* C15: two connections whose clients sent the same bytes and read the
   answer have, once both are handled, received the same bytes. *)
C15_SameRequestSameResponse ==
  \A s, t \in ConnIds :
    (/\ conns[s].req = conns[t].req /\ conns[s].reads /\ conns[t].reads
     /\ Finished(s) /\ Finished(t)) =>
      conns[s].recv = conns[t].recv

(* C16: no thread ever uses a descriptor behind which another connection
   lies; every running thread's descriptor is open and leads to the
   connection the thread was started for, and no two running threads hold the
   same descriptor number, also when a number is given out again. *)
C16_OneHandlerPerHandle ==
  /\ ~lhist.foreign
  /\ \A t \in ConnIds : Running(t) => Target(t) = t
  /\ \A s, t \in ConnIds :
       (Running(s) /\ Running(t) /\ thr[s].fd = thr[t].fd) => s = t

C16_NumberReused ==
  /\ Finished(1) /\ conns[1].closed
  /\ thr[2].pc = "scan"
  /\ thr[2].fd = thr[1].fd

(* C17: while the process runs, the accept loop with a connection waiting can
   accept it and start its thread whatever the threads of the earlier
   connections are doing, and a thread that has reached the end of its loop
   can close its connection: neither waits for a thread that is stalled in a
   transfer. *)
C17_ListenerNeverWaits ==
  Alive =>
    /\ (/\ lsn.pc = "loop" /\ sockfd = "open"
        /\ \E c \in ConnIds : conns[c].state = "queued") =>
         ENABLED (LAccept /\ \E c \in ConnIds :
                              conns[c].state = "queued" /\ thr'[c].pc = "start")
    /\ \A t \in ConnIds : thr[t].pc = "close" => ENABLED HClose(t)

C17_ServedPastStalledTransfer ==
  /\ ~conns[1].reads /\ thr[1].pc = "scan"
  /\ Finished(2) /\ conns[2].closed
  /\ conns[2].recv = FileResponse(<<"A">>)

(* C18: a thread is started exactly for the connections accept returned, one
   each; a connection on which accept failed has none; and the loop is left
   only when the listening socket is no longer valid. *)
C18_FailedAcceptSpawnsNothing ==
  /\ \A c \in ConnIds :
       /\ lhist.spawned[c] = IF conns[c].state = "accepted" THEN 1 ELSE 0
       /\ conns[c].state # "accepted" => thr[c].pc = "none"
  /\ lsn.pc = "exit" => sockfd # "open"

C18_AcceptedAfterFailure ==
  /\ conns[1].state = "dropped"
  /\ conns[2].state = "accepted"
  /\ lhist.spawned[2] = 1
  /\ Finished(2)
  /\ lsn.pc = "loop"

(* C19: a step in which a thread has an exception raised writes the 403 to
   that thread's own connection and to no other, leaves the accept loop and
   main where they are, and ends no process. *)
C19_FailuresStayInside ==
  [][ \A t \in ConnIds :
        thr'[t].threw = thr[t].threw + 1 =>
          /\ ~lhist'.crashed
          /\ thr'[t].log = Append(thr[t].log, "403")
          /\ conns'[t].recv = conns[t].recv \o DenialResponse
          /\ \A u \in ConnIds \ {t} : conns'[u] = conns[u] /\ thr'[u] = thr[u]
          /\ lsn' = lsn /\ pc' = pc /\ sockfd' = sockfd ]_vars

C19_DeniedNextToServed ==
  /\ conns[1].req = R_two /\ Finished(1)
  /\ thr[1].threw = 1 /\ thr[1].log = <<"200", "403">>
  /\ Finished(2) /\ conns[2].recv = FileResponse(<<"A">>)
  /\ lsn.pc = "loop"

(* C23: once dump_file has reached the write of the 200 header, no step up
   to the end of that GET line leads to the catch block, whatever the writes
   return; a response is begun only for a GET line that has none yet (so a
   403 is never followed by a 200 for the same line either); and a handler
   that had a write cut short still ends with its connection released. *)
C23_OutcomeStands ==
  [][ /\ pc \in {"hdr", "body", "fclose"} => pc' # "deny"
      /\ pc = "deny" => pc' \in {"deny", "scan"}
      /\ hist'.responses # hist.responses =>
           Len(hist'.responses) <= hist'.getLines
      /\ (pc' = "done" /\ hist'.short /\ hist'.startedValid) =>
           hist'.fdLog = <<"shutdown", "close">> ]_vars

C23_CutHeaderThenClosed ==
  /\ pc = "done"
  /\ hist.responses = <<"200">> /\ hist.getLines = 1 /\ hist.short
  /\ written = <<"H">>
  /\ hist.fdLog = <<"shutdown", "close">>

(* C24: once the jail is not empty no step changes it, whatever path a later
   setJail call is given; the jail changes only in a setJail call made while
   it is empty, and then to the canonical form of that call's argument;
   constructing a SandboxPath, get and a change of the file system leave it
   as it is. *)
C24_JailSetOnce ==
  [][ /\ jail # Str0 => jail' = jail
      /\ jail' # jail =>
           /\ Len(setJails') = Len(setJails) + 1
           /\ jail' = realPath(fs, Last(setJails')) ]_vars

C24_SecondCallIgnored ==
  /\ setJails = <<P_www, P_d>>
  /\ jail = P_www
  /\ path.state = "ok"

(* C25: whenever the program is past main's start-up (in the accept loop or
   in a handler) setJail has been called and the jail is not empty, so every
   SandboxPath is constructed with the jail set; and while the jail is empty
   the constructor fails for every candidate path before it resolves or
   compares anything. *)
C25_RootBeforeResolution ==
  /\ pc \notin {"main", "exit"} => (setJails = <<htdocs>> /\ jail # Str0)
  /\ path.state # "none" => jail # Str0
  /\ jail = Str0 =>
       \A p \in Candidates :
         SandboxPath(p) = [state |-> "denied", rpath |-> Str0, real |-> Str0]

C25_ResolvedUnderSetRoot ==
  /\ pc = "get1"
  /\ path.state = "ok" /\ path.rpath = P_a
  /\ setJails = <<P_www>> /\ jail = P_www

\* one pass from left to right: an escape becomes its byte, everything else
\* stays, and what an escape produced is not looked at again
RECURSIVE PercentDecode(_)
PercentDecode(s) ==
  IF s = Str0 THEN Str0
  ELSE IF Len(s) >= 3 /\ s[1] = "%" /\ IsHex(s[2]) /\ IsHex(s[3])
  THEN <<Chr(16 * HexVal(s[2]) + HexVal(s[3]))>>
         \o PercentDecode(SubSeq(s, 4, Len(s)))
  ELSE <<s[1]>> \o PercentDecode(Tail(s))

(* C26: the candidate path built for a GET line is the document root, "/" and
   the single-pass percent-decoding of the requested path. *)
C26_SinglePassDecoder ==
  pc \in {"get1", "deny"} =>
    cand = htdocs \o <<"/">> \o PercentDecode(RequestPath(lines[idx]))

(* C27: the file dump_file has open is the one the SandboxPath was built
   for, and every byte transferred from it comes from a file below the jail
   root, also when the file system changes while the request is handled. *)
C27_SentFileIsCheckedFile ==
  [][ (pc = "body" /\ written' # written) =>
        /\ file.from = path.rpath
        /\ BelowRoot(jail, file.from) ]_vars

(* C28: safe_sendfile is reached only with the complete 200 header as the
   last bytes written to the connection. *)
C28_BodyOnlyAfterHeader ==
  pc = "body" =>
    /\ Len(written) >= Len(Response200(fsize))
    /\ SubSeq(written, Len(written) - Len(Response200(fsize)) + 1,
              Len(written)) = Response200(fsize)

(* C30: with a jail set, checkJail accepts every canonical path that names
   something strictly inside the jail directory, the jail "/" included. *)
C30_DescendantsAccepted ==
  jail # Str0 =>
    \A p \in Candidates :
      (p # Str0 /\ realPath(fs, p) = p /\ Descendant(jail, p)) =>
        checkJail(p)

(* C31: no select, read, write or sendfile call is made on the connection
   handle unless valid(fd) was called on it after the call before. *)
C31_CheckedBeforeEveryCall ==
  hist.stale = {}

(* C32: a file descriptor is open only inside dump_file, between its open and
   its close; at every other point, the end of the connection included, each
   descriptor dump_file opened has been closed by exactly one close call,
   whether the size query, the header write or the transfer failed or not. *)
C32_FileClosedExactlyOnce ==
  /\ file.open => pc \in {"size", "sizedir", "hdr", "body", "fclose"}
  /\ hist.fcloses = Len(hist.opened) - (IF file.open THEN 1 ELSE 0)
  /\ pc = "done" => ~file.open

C32_ClosedAfterFailedSizeQuery ==
  /\ pc = "done"
  /\ hist.opened = <<P_a>> /\ hist.fcloses = 1
  /\ hist.responses = <<>> /\ written = Str0
  /\ ~file.open

(* Properties of safe_write and safe_sendfile *)

\* every call of the log starts where the calls before it got to, and only
\* the last one reports an error
LogResumes(log) ==
  \A i \in 1..Len(log) :
    /\ log[i].at = IF i = 1 THEN 0
                   ELSE log[i - 1].at + Transferred(log[i - 1].ret)
    /\ log[i].ret < 0 => i = Len(log)

(* C21: in a safe_write call the descriptor has received exactly the first
   data_sent bytes of data, in order, data_sent never exceeds the length of
   data, every write call starts at the count already sent, no write call
   follows one that reported an error, and the value returned is true exactly
   when all of data has been received. *)
C21_SafeWriteInOrder ==
  io.fn = "safe_write" =>
    /\ io.data_sent <= Len(io.data)
    /\ io.out = SubSeq(io.data, 1, io.data_sent)
    /\ LogResumes(io.log)
    /\ io.pc = "done" => (io.result <=> io.out = io.data)

C21_ResumedAfterPartialWrite ==
  /\ io.fn = "safe_write" /\ io.pc = "done" /\ io.result
  /\ io.data = <<"a", "b", "c">>
  /\ Len(io.log) = 2 /\ io.log[1].ret = 1 /\ io.log[2].at = 1

(* C22: in a safe_sendfile call every sendfile call starts at the offset the
   calls before it reached and asks for data_length minus that offset, no
   call follows one that reported an error, the offset never decreases and
   never exceeds data_length, the descriptor has received the bytes of the
   file up to the offset, and the value returned is true exactly when the
   offset equals data_length. *)
C22_SendfileResumes ==
  io.fn = "safe_sendfile" =>
    /\ io.data_sent <= io.data_length
    /\ LogResumes(io.log)
    /\ \A i \in 1..Len(io.log) :
         /\ io.log[i].count = io.data_length - io.log[i].at
         /\ io.log[i].at <= io.data_sent
    /\ io.out = SubSeq(io.data, 1, io.data_sent)
    /\ io.pc = "done" => (io.result <=> io.data_sent = io.data_length)

C22_ResumedAtOffset ==
  /\ io.fn = "safe_sendfile" /\ io.pc = "done" /\ io.result
  /\ io.data = <<"a", "b", "c">> /\ io.data_length = 2
  /\ Len(io.log) = 2 /\ io.log[2].at = 1 /\ io.log[2].count = 1

(* C29: every turn of either loop whose test held either increases
   data_sent or leaves the loop's test false. *)
C29_EveryTurnProgresses ==
  [][ (io.pc = "loop" /\ LoopTest(io) /\ io' # io) =>
        \/ io'.data_sent > io.data_sent
        \/ ~LoopTest(io') ]_vars

====
